---- MODULE Spec2Model ----
(***************************************************************************)
(* A model of the simple banking system of src/banking.py: BankAccount,   *)
(* BankingSystem (the ledger) and its CSV snapshot.                       *)
(*                                                                         *)
(* Text (str) is a sequence of one-character strings.  A number, float or *)
(* Decimal, is a record of its sign, the decimal digits of its            *)
(* coefficient and its exponent of ten, or an infinity, or NaN.  Decimal  *)
(* arithmetic rounds its results to the precision of the decimal context  *)
(* and signals InvalidOperation as the decimal module does.               *)
(***************************************************************************)
EXTENDS Integers, Sequences, FiniteSets, TLC

\* ------------------------------------------------------------------ bounds
\* The largest number of accounts a ledger holds in the model.
MaxAccounts == 2
\* The largest balance in cents that an account reaches cent by cent in the
\* model.
MaxBalance == 2

\* ------------------------------------------------------------------ errors
None == "None"
\* KeyError raised by self._accounts[acc_id]
AccountNotFound == "KeyError"
\* ValueError("amount must be positive")
InvalidAmount == "ValueError: amount must be positive"
\* ValueError("insufficient funds")
InsufficientFunds == "ValueError: insufficient funds"
\* decimal.InvalidOperation
InvalidOperation == "InvalidOperation"

\* ------------------------------------------------------------------ dict
\* A Python dict: a sequence of entries in insertion order, keys unique.
Keys(d) == { d[i].key : i \in 1..Len(d) }

Has(d, k) == k \in Keys(d)

Get(d, k) == d[CHOOSE i \in 1..Len(d) : d[i].key = k].val

\* d[k] = v: replaces the value in place, or appends a new entry.
Put(d, k, v) ==
    IF Has(d, k)
    THEN [i \in 1..Len(d) |-> IF d[i].key = k THEN [key |-> k, val |-> v] ELSE d[i]]
    ELSE Append(d, [key |-> k, val |-> v])

\* ------------------------------------------------------------------ coefficients
\* The coefficient of a number: a natural number of any size, as the
\* sequence of its decimal digits, most significant first; zero is <<0>>.
Zeros(k) == [i \in 1..k |-> 0]

\* d without the zeros in front.
StripZeros(d) ==
    IF \A i \in 1..Len(d) : d[i] = 0 THEN <<0>>
    ELSE SubSeq(d, CHOOSE i \in 1..Len(d) :
                       d[i] # 0 /\ \A j \in 1..(i - 1) : d[j] = 0,
                Len(d))

\* d with zeros in front, to n digits at least.
PadLeft(d, n) == IF Len(d) >= n THEN d ELSE Zeros(n - Len(d)) \o d

Max(m, n) == IF m >= n THEN m ELSE n

Min(m, n) == IF m <= n THEN m ELSE n

\* a < b
NatLess(a, b) ==
    LET x == StripZeros(a)
        y == StripZeros(b)
    IN  IF Len(x) # Len(y) THEN Len(x) < Len(y)
        ELSE \E i \in 1..Len(x) :
                 x[i] < y[i] /\ \A j \in 1..(i - 1) : x[j] = y[j]

\* The carry into digit i of a + b, for a and b of the same length: a
\* digit to the right of i overflows, and every digit between passes the
\* carry on.
Carry(a, b, i) ==
    \E j \in (i + 1)..Len(a) :
        a[j] + b[j] >= 10 /\ \A k \in (i + 1)..(j - 1) : a[k] + b[k] = 9

\* a + b
NatAdd(a, b) ==
    LET n == Max(Len(a), Len(b)) + 1
        x == PadLeft(a, n)
        y == PadLeft(b, n)
    IN  StripZeros([i \in 1..n |->
                       (x[i] + y[i] + IF Carry(x, y, i) THEN 1 ELSE 0) % 10])

\* The borrow from digit i of a - b, for a >= b of the same length.
Borrow(a, b, i) ==
    \E j \in (i + 1)..Len(a) :
        a[j] < b[j] /\ \A k \in (i + 1)..(j - 1) : a[k] = b[k]

\* a - b, for a >= b
NatSub(a, b) ==
    LET n == Max(Len(a), Len(b))
        x == PadLeft(a, n)
        y == PadLeft(b, n)
    IN  StripZeros([i \in 1..n |->
                       (10 + x[i] - y[i] - IF Borrow(x, y, i) THEN 1 ELSE 0) % 10])

\* d without its last drop digits, rounded half to even on what is dropped
\* (ROUND_HALF_EVEN, the rounding of the default decimal context).
RoundHalfEven(d, drop) ==
    LET p    == PadLeft(d, drop + 1)
        kept == SubSeq(p, 1, Len(p) - drop)
        rest == SubSeq(p, Len(p) - drop + 1, Len(p))
        up   == /\ drop > 0
                /\ \/ rest[1] > 5
                   \/ /\ rest[1] = 5
                      /\ \/ \E i \in 2..drop : rest[i] # 0
                         \/ kept[Len(kept)] % 2 = 1
    IN  StripZeros(IF up THEN NatAdd(kept, <<1>>) ELSE kept)

\* ------------------------------------------------------------------ numbers
\* A finite number: (-1)^sign * int * 10^exp, int a coefficient as above.
Finite(sign, int, exp) ==
    [kind |-> "finite", sign |-> sign, int |-> int, exp |-> exp]

\* float("inf"), Decimal("Infinity") and their negatives.
Infinity(sign) == [kind |-> "Infinity", sign |-> sign, int |-> <<0>>, exp |-> 0]

\* float("nan"), Decimal("NaN")
NaN == [kind |-> "NaN", sign |-> 0, int |-> <<>>, exp |-> 0]

\* The int 0 that amounts are compared with.
Zero == Finite(0, <<0>>, 0)

IsNaN(x) == x.kind = "NaN"

IsInfinite(x) == x.kind = "Infinity"

IsZero(x) == x.kind = "finite" /\ StripZeros(x.int) = <<0>>

Negative(x) == x.sign = 1 /\ ~IsZero(x)

\* -x
Minus(x) == [x EXCEPT !.sign = 1 - @]

\* The digits of the finite number x at the exponent e <= x.exp.
Shifted(x, e) == x.int \o Zeros(x.exp - e)

\* |x| < |y|, for numbers that are not NaN.
MagnitudeLess(x, y) ==
    IF IsInfinite(x) THEN FALSE
    ELSE IF IsInfinite(y) THEN TRUE
    ELSE LET e == Min(x.exp, y.exp)
         IN  NatLess(Shifted(x, e), Shifted(y, e))

\* x < y as numbers: false when either is NaN; -0 and 0 are equal.
Less(x, y) ==
    IF IsNaN(x) \/ IsNaN(y) THEN FALSE
    ELSE IF Negative(x) # Negative(y) THEN Negative(x)
    ELSE IF Negative(x) THEN MagnitudeLess(y, x)
    ELSE MagnitudeLess(x, y)

\* x = y as numbers: NaN equals nothing.
Equal(x, y) == ~IsNaN(x) /\ ~IsNaN(y) /\ ~Less(x, y) /\ ~Less(y, x)

LessEq(x, y) == Less(x, y) \/ Equal(x, y)

\* x + y in exact arithmetic, with the exponent the decimal module gives
\* an exact sum (the smaller of the two); NaN where there is no sum.
Sum(x, y) ==
    IF IsNaN(x) \/ IsNaN(y) THEN NaN
    ELSE IF IsInfinite(x)
    THEN (IF IsInfinite(y) /\ x.sign # y.sign THEN NaN ELSE x)
    ELSE IF IsInfinite(y) THEN y
    ELSE LET e == Min(x.exp, y.exp)
             a == Shifted(x, e)
             b == Shifted(y, e)
         IN  IF x.sign = y.sign THEN Finite(x.sign, NatAdd(a, b), e)
             ELSE IF NatLess(a, b) THEN Finite(y.sign, NatSub(b, a), e)
             ELSE IF NatLess(b, a) THEN Finite(x.sign, NatSub(a, b), e)
             ELSE Finite(0, <<0>>, e)

\* ------------------------------------------------------------------ Decimal
\* The precision of the default decimal context (getcontext().prec).
Prec == 28

\* The rounding of a result to the context: a coefficient of more than Prec
\* digits loses its last digits, rounded half to even.
Round(x) ==
    IF x.kind # "finite" \/ Len(x.int) <= Prec THEN x
    ELSE LET drop == Len(x.int) - Prec
             c    == RoundHalfEven(x.int, drop)
         IN  IF Len(c) > Prec
             THEN Finite(x.sign, SubSeq(c, 1, Prec), x.exp + drop + 1)
             ELSE Finite(x.sign, c, x.exp + drop)

\* Decimal.__add__: err is the exception raised (or None), val the result.
Decimal_add(x, y) ==
    IF IsNaN(x) \/ IsNaN(y) THEN [err |-> None, val |-> NaN]
    ELSE IF IsInfinite(x) /\ IsInfinite(y) /\ x.sign # y.sign
    THEN [err |-> InvalidOperation, val |-> NaN]
    ELSE [err |-> None, val |-> Round(Sum(x, y))]

\* Decimal.__sub__
Decimal_sub(x, y) == Decimal_add(x, Minus(y))

\* Decimal.__le__: an ordering comparison with NaN signals InvalidOperation.
Decimal_le(x, y) ==
    IF IsNaN(x) \/ IsNaN(y) THEN [err |-> InvalidOperation, val |-> FALSE]
    ELSE [err |-> None, val |-> LessEq(x, y)]

\* Decimal.__gt__
Decimal_gt(x, y) ==
    IF IsNaN(x) \/ IsNaN(y) THEN [err |-> InvalidOperation, val |-> FALSE]
    ELSE [err |-> None, val |-> Less(y, x)]

\* float.__lt__: a comparison with nan is False.
float_lt(x, y) == Less(x, y)

\* ------------------------------------------------------------------ str(Decimal), Decimal(str)
DigitChars == <<"0", "1", "2", "3", "4", "5", "6", "7", "8", "9">>

Digit(n) == DigitChars[n + 1]

IsDigit(ch) == \E n \in 0..9 : DigitChars[n + 1] = ch

DigitVal(ch) == CHOOSE n \in 0..9 : DigitChars[n + 1] = ch

RECURSIVE NatStr(_)
NatStr(n) == IF n < 10 THEN <<Digit(n)>> ELSE NatStr(n \div 10) \o <<Digit(n % 10)>>

RECURSIVE NatVal(_)
NatVal(s) == IF s = <<>> THEN 0
             ELSE 10 * NatVal(SubSeq(s, 1, Len(s) - 1)) + DigitVal(s[Len(s)])

Abs(n) == IF n < 0 THEN 0 - n ELSE n

\* The digits of a coefficient as text, and back.
DigitText(d) == [i \in 1..Len(d) |-> Digit(d[i])]

DigitVals(s) == [i \in 1..Len(s) |-> DigitVal(s[i])]

ZeroText(k) == [i \in 1..k |-> "0"]

\* Decimal.__str__: scientific notation when the exponent is positive or
\* the number is below 0.000001, plain notation otherwise.
Decimal_str(x) ==
    LET sign       == IF x.sign = 1 THEN <<"-">> ELSE <<>>
        digits     == DigitText(x.int)
        leftdigits == x.exp + Len(digits)
        dotplace   == IF x.exp <= 0 /\ leftdigits > -6 THEN leftdigits ELSE 1
        intpart    == IF dotplace <= 0 THEN <<"0">>
                      ELSE IF dotplace >= Len(digits)
                      THEN digits \o ZeroText(dotplace - Len(digits))
                      ELSE SubSeq(digits, 1, dotplace)
        fracpart   == IF dotplace <= 0
                      THEN <<".">> \o ZeroText(0 - dotplace) \o digits
                      ELSE IF dotplace >= Len(digits) THEN <<>>
                      ELSE <<".">> \o SubSeq(digits, dotplace + 1, Len(digits))
        exp        == IF leftdigits = dotplace THEN <<>>
                      ELSE <<"E", IF leftdigits < dotplace THEN "-" ELSE "+">>
                           \o NatStr(Abs(leftdigits - dotplace))
    IN  IF IsInfinite(x)
        THEN sign \o <<"I", "n", "f", "i", "n", "i", "t", "y">>
        ELSE IF IsNaN(x) THEN sign \o <<"N", "a", "N">>
        ELSE sign \o intpart \o fracpart \o exp

AllDigits(s) == \A i \in 1..Len(s) : IsDigit(s[i])

\* str.lower() of the letters of "Infinity", "NaN" and the exponent mark.
Lower(ch) ==
    CASE ch = "I" -> "i" [] ch = "N" -> "n" [] ch = "F" -> "f"
      [] ch = "T" -> "t" [] ch = "Y" -> "y" [] ch = "A" -> "a"
      [] ch = "E" -> "e" [] OTHER -> ch

\* Decimal(text): an optional sign, then "Inf", "Infinity" or "NaN" in any
\* case, or digits with an optional point and an optional exponent.  Any
\* other text raises decimal.InvalidOperation.  White space around the
\* number, underscores, signaling NaN and NaN payloads, which Decimal()
\* also takes, are in none of the texts the model reads.
Decimal_parse(text) ==
    LET signed  == text # <<>> /\ text[1] \in {"-", "+"}
        sign    == IF signed /\ text[1] = "-" THEN 1 ELSE 0
        body    == IF signed THEN Tail(text) ELSE text
        lower   == [i \in 1..Len(body) |-> Lower(body[i])]
        marks   == { i \in 1..Len(lower) : lower[i] = "e" }
        m       == IF marks = {} THEN Len(body) + 1 ELSE CHOOSE i \in marks : TRUE
        number  == SubSeq(body, 1, m - 1)
        expo    == SubSeq(body, m + 1, Len(body))
        esigned == expo # <<>> /\ expo[1] \in {"-", "+"}
        edigits == IF esigned THEN Tail(expo) ELSE expo
        dots    == { i \in 1..Len(number) : number[i] = "." }
        p       == IF dots = {} THEN Len(number) + 1 ELSE CHOOSE i \in dots : TRUE
        ip      == SubSeq(number, 1, p - 1)
        fp      == SubSeq(number, p + 1, Len(number))
        ok      == /\ Cardinality(marks) <= 1
                   /\ Cardinality(dots) <= 1
                   /\ AllDigits(ip) /\ AllDigits(fp)
                   /\ Len(ip) + Len(fp) >= 1
                   /\ marks # {} => (edigits # <<>> /\ AllDigits(edigits))
        e       == IF marks = {} THEN 0
                   ELSE IF esigned /\ expo[1] = "-" THEN 0 - NatVal(edigits)
                   ELSE NatVal(edigits)
    IN  IF lower \in { <<"i", "n", "f">>,
                       <<"i", "n", "f", "i", "n", "i", "t", "y">> }
        THEN [err |-> None, val |-> Infinity(sign)]
        ELSE IF lower = <<"n", "a", "n">>
        THEN [err |-> None, val |-> [NaN EXCEPT !.sign = sign]]
        ELSE IF ~ok THEN [err |-> InvalidOperation, val |-> NaN]
        ELSE [err |-> None,
              val |-> Finite(sign, StripZeros(DigitVals(ip \o fp)), e - Len(fp))]

\* ------------------------------------------------------------------ f"{amount:.2f}"
\* The coefficient of |x| in hundredths, rounded to the nearest.
Hundredths(x) ==
    IF x.exp >= -2 THEN StripZeros(x.int \o Zeros(x.exp + 2))
    ELSE RoundHalfEven(x.int, 0 - 2 - x.exp)

\* f"{amount:.2f}": "nan", "inf" or "-inf", or the sign, the integer digits,
\* a point and two decimals.
float_format(amount) ==
    IF IsNaN(amount) THEN <<"n", "a", "n">>
    ELSE (IF amount.sign = 1 THEN <<"-">> ELSE <<>>)
         \o IF IsInfinite(amount) THEN <<"i", "n", "f">>
            ELSE LET c == PadLeft(Hundredths(amount), 3)
                 IN  DigitText(SubSeq(c, 1, Len(c) - 2)) \o <<".">>
                     \o DigitText(SubSeq(c, Len(c) - 1, Len(c)))

\* ------------------------------------------------------------------ inputs
\* The ids uuid4 can hand out, and the ids callers pass (one of them is
\* always absent from a ledger of MaxAccounts accounts).
IdPool == { <<"u", "1">>, <<"u", "2">>, <<"u", "3">> }

\* The account holder name passed to create_account.  No operation of the
\* ledger reads a name.
Names == { <<"A">> }

\* The names of the accounts that are saved and loaded: that one, one with
\* a carriage return, one with the CSV delimiter and quote character, and
\* one with a line feed.
SnapshotNames == Names \cup { <<"x", "\r">>, <<",", "\"">>, <<"y", "\n">> }

\* The float 1e30: the double next to 10^30, 1000000000000000019884624838656.
float_1e30 ==
    Finite(0, <<1, 0, 0, 0, 0, 0, 0, 0, 0, 0, 0, 0, 0, 0, 0, 0, 0,
                1, 9, 8, 8, 4, 6, 2, 4, 8, 3, 8, 6, 5, 6>>, 0)

\* float amounts: -0.006, -0.004, 0.0, 0.004, 0.006 and 0.02, each as the
\* decimal numeral that reads as the float; 1e30, -inf, inf and nan.
\* Decimal ties (a 5 in the third place) are left out: how f"{amount:.2f}"
\* rounds them depends on the binary float next to them.
RawAmounts ==
    { Finite(1, <<6>>, -3), Finite(1, <<4>>, -3), Finite(0, <<0>>, 0),
      Finite(0, <<4>>, -3), Finite(0, <<6>>, -3), Finite(0, <<2>>, -2),
      float_1e30, Infinity(1), Infinity(0), NaN }

\* Decimal(f"{amount:.2f}") of each of these amounts.
Converted == [amount \in RawAmounts |-> Decimal_parse(float_format(amount)).val]

\* Decimal(f"{amount:.2f}")
to_decimal(amount) ==
    IF amount \in RawAmounts THEN Converted[amount]
    ELSE Decimal_parse(float_format(amount)).val

\* Decimal("0.00"), Decimal("0.01"), ...: n cents, for n < 10.
Cents(n) == Finite(0, <<n>>, -2)

\* The balances an account has in the model: 0.00 to MaxBalance cents, and
\* those the amounts above lead to: NaN, Infinity, 1e30 as converted and as
\* the context rounds it.
Balances ==
    { Cents(n) : n \in 0..MaxBalance }
    \cup { NaN, Infinity(0), to_decimal(float_1e30), Round(to_decimal(float_1e30)) }

\* ------------------------------------------------------------------ BankAccount
BankAccount(id, name, balance) == [id |-> id, name |-> name, balance |-> balance]

\* A method of BankAccount raises err and leaves the account as it was.
Raise(err, acc) == [err |-> err, acc |-> acc]

\* A method of BankAccount returns, with the account's balance assigned.
Assigned(acc, balance) == [err |-> None, acc |-> [acc EXCEPT !.balance = balance]]

\* The statements of BankAccount.deposit, given what "amount <= 0" and
\* "self.balance + amount" evaluate to (each an exception or a value).
deposit_statements(acc, nonpos, new) ==
    IF nonpos.err # None THEN Raise(nonpos.err, acc)
    ELSE IF nonpos.val THEN Raise(InvalidAmount, acc)
    ELSE IF new.err # None THEN Raise(new.err, acc)
    ELSE Assigned(acc, new.val)

\* BankAccount.deposit with "amount < 0" for its test: a zero amount passes.
BankAccount_deposit_zero_accepted(acc, amount) ==
    deposit_statements(acc, Decimal_gt(Zero, amount),
                       Decimal_add(acc.balance, amount))

\* BankAccount.deposit: the exception raised (or None) and the account after.
BankAccount_deposit(acc, amount) ==
    deposit_statements(acc, Decimal_le(amount, Zero),
                       Decimal_add(acc.balance, amount))

\* The statements of BankAccount.withdraw, given what "amount <= 0",
\* "amount > self.balance" and "self.balance - amount" evaluate to.
withdraw_statements(acc, nonpos, over, new) ==
    IF nonpos.err # None THEN Raise(nonpos.err, acc)
    ELSE IF nonpos.val THEN Raise(InvalidAmount, acc)
    ELSE IF over.err # None THEN Raise(over.err, acc)
    ELSE IF over.val THEN Raise(InsufficientFunds, acc)
    ELSE IF new.err # None THEN Raise(new.err, acc)
    ELSE Assigned(acc, new.val)

\* BankAccount.withdraw: the exception raised (or None) and the account after.
BankAccount_withdraw(acc, amount) ==
    withdraw_statements(acc, Decimal_le(amount, Zero),
                        Decimal_gt(amount, acc.balance),
                        Decimal_sub(acc.balance, amount))

\* ------------------------------------------------------------------ BankingSystem
\* Each operation of the ledger as a function of the dict it runs on:
\* err is the exception raised (or None), ret the value returned, accounts
\* the dict when the call ends.
Outcome(err, ret, accts) == [err |-> err, ret |-> ret, accounts |-> accts]

\* What a call returns: nothing, an account id, or a balance.
RetNone == [id |-> {}, balance |-> {}]

RetId(acc_id) == [id |-> {acc_id}, balance |-> {}]

RetBalance(b) == [id |-> {}, balance |-> {b}]

\* An id generator that can repeat a key already in the dict.
uuid4_repeating(accts) == IdPool

\* The values str(uuid.uuid4()) can have: 122 random bits, taken never to
\* repeat a key already in the dict.
uuid4(accts) == IdPool \ Keys(accts)

\* create_account without its test of the opening balance.
create_account_on_unchecked(accts, acc_id, name, opening_balance) ==
    Outcome(None, RetId(acc_id),
            Put(accts, acc_id,
                BankAccount(acc_id, name, to_decimal(opening_balance))))

create_account_on(accts, acc_id, name, opening_balance) ==
    IF float_lt(opening_balance, Zero)
    THEN Outcome(InvalidAmount, RetNone, accts)
    ELSE Outcome(None, RetId(acc_id),
                 Put(accts, acc_id,
                     BankAccount(acc_id, name, to_decimal(opening_balance))))

\* What the statements of a call did so far: err and accounts as in
\* Outcome, and legs, the BankAccount methods called, in order.
Steps(err, accts, legs) == [err |-> err, accounts |-> accts, legs |-> legs]

\* A call that has run no statement yet.
NoSteps(accts) == Steps(None, accts, <<>>)

\* The method of the account under acc_id has run, with result r: what it
\* did to the account is in the dict (the dict holds the object).
MethodRun(t, acc_id, method, r) ==
    Steps(r.err, Put(t.accounts, acc_id, r.acc), Append(t.legs, method))

\* self._accounts[acc_id].deposit(amt), after the steps t: not run when
\* an exception has ended the call; a KeyError when the key is missing.
deposit_step(t, acc_id, amt) ==
    IF t.err # None THEN t
    ELSE IF ~Has(t.accounts, acc_id)
    THEN Steps(AccountNotFound, t.accounts, t.legs)
    ELSE MethodRun(t, acc_id, "deposit",
                   BankAccount_deposit(Get(t.accounts, acc_id), amt))

\* self._accounts[acc_id].withdraw(amt), after the steps t.
withdraw_step(t, acc_id, amt) ==
    IF t.err # None THEN t
    ELSE IF ~Has(t.accounts, acc_id)
    THEN Steps(AccountNotFound, t.accounts, t.legs)
    ELSE MethodRun(t, acc_id, "withdraw",
                   BankAccount_withdraw(Get(t.accounts, acc_id), amt))

\* A call that returns None, after its steps.
Done(t) == Outcome(t.err, RetNone, t.accounts)

\* deposit on a dict that makes an empty account for a key it lacks (a
\* defaultdict).
deposit_on_defaultdict(accts, acc_id, amount) ==
    Done(deposit_step(
             NoSteps(IF Has(accts, acc_id) THEN accts
                     ELSE Put(accts, acc_id, BankAccount(acc_id, <<>>, Cents(0)))),
             acc_id, to_decimal(amount)))

deposit_on(accts, acc_id, amount) ==
    Done(deposit_step(NoSteps(accts), acc_id, to_decimal(amount)))

\* withdraw that closes the account it has emptied.
withdraw_on_closing_empty(accts, acc_id, amount) ==
    LET r == Done(withdraw_step(NoSteps(accts), acc_id, to_decimal(amount)))
    IN  IF r.err = None /\ IsZero(Get(r.accounts, acc_id).balance)
        THEN Outcome(None, RetNone,
                     SelectSeq(r.accounts, LAMBDA e : e.key # acc_id))
        ELSE r

withdraw_on(accts, acc_id, amount) ==
    Done(withdraw_step(NoSteps(accts), acc_id, to_decimal(amount)))

\* The statements of transfer after amt = to_decimal(amount).
transfer_statements(accts, src_id, dst_id, amt) ==
    deposit_step(withdraw_step(NoSteps(accts), src_id, amt), dst_id, amt)

\* transfer with its two statements in the other order: deposit, then
\* withdraw.
transfer_steps_deposit_first(accts, src_id, dst_id, amount) ==
    LET amt == to_decimal(amount)
    IN  withdraw_step(deposit_step(NoSteps(accts), dst_id, amt), src_id, amt)

\* transfer: the withdraw statement runs to its end (lookup of src_id, then
\* BankAccount.withdraw) before the deposit statement looks dst_id up.  An
\* exception ends the call where it is raised.
transfer_steps(accts, src_id, dst_id, amount) ==
    transfer_statements(accts, src_id, dst_id, to_decimal(amount))

transfer_on(accts, src_id, dst_id, amount) ==
    Done(transfer_steps(accts, src_id, dst_id, amount))

get_balance_on(accts, acc_id) ==
    IF ~Has(accts, acc_id)
    THEN Outcome(AccountNotFound, RetNone, accts)
    ELSE Outcome(None, RetBalance(Get(accts, acc_id).balance), accts)

\* ------------------------------------------------------------------ csv.writer
RECURSIVE DoubleQuotes(_)
DoubleQuotes(f) ==
    IF f = <<>> THEN <<>>
    ELSE (IF Head(f) = "\"" THEN <<"\"", "\"">> ELSE <<Head(f)>>) \o DoubleQuotes(Tail(f))

\* QUOTE_MINIMAL of the excel dialect: a field holding the delimiter, the
\* quote character or a character of the line terminator is quoted, with
\* its quote characters doubled.
csv_field(f) ==
    IF \E i \in 1..Len(f) : f[i] \in {",", "\"", "\r", "\n"}
    THEN <<"\"">> \o DoubleQuotes(f) \o <<"\"">>
    ELSE f

RECURSIVE csv_join(_)
csv_join(fields) ==
    IF Len(fields) = 1 THEN csv_field(fields[1])
    ELSE csv_field(fields[1]) \o <<",">> \o csv_join(Tail(fields))

\* csv.writer(f).writerow(fields) on a file opened with newline="".
csv_writerow(fields) == csv_join(fields) \o <<"\r", "\n">>

HeaderRow == << <<"i", "d">>, <<"n", "a", "m", "e">>,
                <<"b", "a", "l", "a", "n", "c", "e">> >>

RECURSIVE csv_rows(_)
csv_rows(accts) ==
    IF accts = <<>> THEN <<>>
    ELSE LET acc == Head(accts).val
         IN  csv_writerow(<<acc.id, acc.name, Decimal_str(acc.balance)>>)
             \o csv_rows(Tail(accts))

\* The text save_csv writes for a dict of accounts.
save_csv_text(accts) == csv_writerow(HeaderRow) \o csv_rows(accts)

\* ------------------------------------------------------------------ reading the file
\* p.open(): text mode with universal newlines, "\r\n" and "\r" are read
\* as "\n".
RECURSIVE UniversalNewlines(_)
UniversalNewlines(t) ==
    IF t = <<>> THEN <<>>
    ELSE IF Head(t) = "\r"
    THEN <<"\n">> \o UniversalNewlines(
             IF Len(t) >= 2 /\ t[2] = "\n" THEN Tail(Tail(t)) ELSE Tail(t))
    ELSE <<Head(t)>> \o UniversalNewlines(Tail(t))

\* Iterating the file: the lines, each with its "\n" (the last may lack it).
RECURSIVE SplitLines(_, _)
SplitLines(t, line) ==
    IF t = <<>> THEN (IF line = <<>> THEN <<>> ELSE <<line>>)
    ELSE IF Head(t) = "\n"
    THEN <<Append(line, "\n")>> \o SplitLines(Tail(t), <<>>)
    ELSE SplitLines(Tail(t), Append(line, Head(t)))

\* ------------------------------------------------------------------ csv.reader
EOL == "EOL"

ReaderStart == [state |-> "START_RECORD", field |-> <<>>, row |-> <<>>, err |-> None]

SaveField(st, next) == [st EXCEPT !.row = Append(st.row, st.field),
                                  !.field = <<>>, !.state = next]

AfterField(c) == IF c = EOL THEN "START_RECORD" ELSE "EAT_CRNL"

\* parse_process_char of the csv reader (excel dialect, not strict).
ReaderStartField(st, c) ==
    IF c \in {"\n", "\r", EOL} THEN SaveField(st, AfterField(c))
    ELSE IF c = "\"" THEN [st EXCEPT !.state = "IN_QUOTED_FIELD"]
    ELSE IF c = "," THEN SaveField(st, "START_FIELD")
    ELSE [st EXCEPT !.field = Append(@, c), !.state = "IN_FIELD"]

ReaderChar(st, c) ==
    CASE st.state = "START_RECORD" ->
            IF c = EOL THEN st
            ELSE IF c \in {"\n", "\r"} THEN [st EXCEPT !.state = "EAT_CRNL"]
            ELSE ReaderStartField(st, c)
      [] st.state = "START_FIELD" -> ReaderStartField(st, c)
      [] st.state = "IN_FIELD" ->
            IF c \in {"\n", "\r", EOL} THEN SaveField(st, AfterField(c))
            ELSE IF c = "," THEN SaveField(st, "START_FIELD")
            ELSE [st EXCEPT !.field = Append(@, c)]
      [] st.state = "IN_QUOTED_FIELD" ->
            IF c = EOL THEN st
            ELSE IF c = "\"" THEN [st EXCEPT !.state = "QUOTE_IN_QUOTED_FIELD"]
            ELSE [st EXCEPT !.field = Append(@, c)]
      [] st.state = "QUOTE_IN_QUOTED_FIELD" ->
            IF c = "\"" THEN [st EXCEPT !.field = Append(@, c), !.state = "IN_QUOTED_FIELD"]
            ELSE IF c = "," THEN SaveField(st, "START_FIELD")
            ELSE IF c \in {"\n", "\r", EOL} THEN SaveField(st, AfterField(c))
            ELSE [st EXCEPT !.field = Append(@, c), !.state = "IN_FIELD"]
      [] OTHER -> \* EAT_CRNL
            IF c \in {"\n", "\r"} THEN st
            ELSE IF c = EOL THEN [st EXCEPT !.state = "START_RECORD"]
            ELSE [st EXCEPT !.err = "csv.Error"]

RECURSIVE ReaderLine(_, _)
ReaderLine(st, line) ==
    IF line = <<>> \/ st.err # None THEN st
    ELSE ReaderLine(ReaderChar(st, Head(line)), Tail(line))

\* The records csv.reader yields from the lines: a record ends when a line
\* ends outside a quoted field; input ending inside a record yields it.
RECURSIVE ReaderRecords(_, _, _)
ReaderRecords(lines, st, rows) ==
    IF lines = <<>>
    THEN [err  |-> None,
          rows |-> IF st.field # <<>> \/ st.state = "IN_QUOTED_FIELD"
                   THEN Append(rows, Append(st.row, st.field)) ELSE rows]
    ELSE LET st1 == ReaderLine(st, Head(lines))
             st2 == IF st1.err # None THEN st1 ELSE ReaderChar(st1, EOL)
         IN  IF st2.err # None THEN [err |-> st2.err, rows |-> rows]
             ELSE IF st2.state = "START_RECORD"
             THEN ReaderRecords(Tail(lines), ReaderStart, Append(rows, st2.row))
             ELSE ReaderRecords(Tail(lines), st2, rows)

csv_reader(text) == ReaderRecords(SplitLines(text, <<>>), ReaderStart, <<>>)

\* ------------------------------------------------------------------ csv.DictReader
\* row[name] of the dict DictReader builds: the last column so named wins,
\* a column the record is too short for holds None, no such column is a
\* KeyError.
DictGet(fieldnames, row, name) ==
    LET cols == { i \in 1..Len(fieldnames) : fieldnames[i] = name }
        col  == CHOOSE i \in cols : \A j \in cols : j <= i
    IN  IF cols = {} THEN [err |-> "KeyError", none |-> FALSE, val |-> <<>>]
        ELSE IF col > Len(row) THEN [err |-> None, none |-> TRUE, val |-> <<>>]
        ELSE [err |-> None, none |-> FALSE, val |-> row[col]]

\* None where a str is expected (a column the record is too short for).
NoneText == <<None>>

\* A loop that leaves out the records it cannot turn into an account.
RECURSIVE load_rows_skipping(_, _, _)
load_rows_skipping(fieldnames, rows, accts) ==
    IF rows = <<>> THEN Outcome(None, RetNone, accts)
    ELSE LET id   == DictGet(fieldnames, Head(rows), HeaderRow[1])
             name == DictGet(fieldnames, Head(rows), HeaderRow[2])
             bal  == DictGet(fieldnames, Head(rows), HeaderRow[3])
             dec  == Decimal_parse(bal.val)
         IN  IF \/ Head(rows) = <<>>
                \/ id.err # None \/ name.err # None \/ bal.err # None
                \/ id.none \/ name.none \/ bal.none
                \/ dec.err # None
             THEN load_rows_skipping(fieldnames, Tail(rows), accts)
             ELSE load_rows_skipping(fieldnames, Tail(rows),
                                     Put(accts, id.val,
                                         BankAccount(id.val, name.val, dec.val)))

\* The loop of load_csv over the records after the header; empty records
\* are skipped by DictReader.
RECURSIVE load_rows(_, _, _)
load_rows(fieldnames, rows, accts) ==
    IF rows = <<>> THEN Outcome(None, RetNone, accts)
    ELSE IF Head(rows) = <<>> THEN load_rows(fieldnames, Tail(rows), accts)
    ELSE LET id   == DictGet(fieldnames, Head(rows), HeaderRow[1])
             name == DictGet(fieldnames, Head(rows), HeaderRow[2])
             bal  == DictGet(fieldnames, Head(rows), HeaderRow[3])
             dec  == Decimal_parse(bal.val)
         IN  IF id.err # None \/ name.err # None \/ bal.err # None
             THEN Outcome("KeyError", RetNone, accts)
             ELSE IF bal.none THEN Outcome("TypeError", RetNone, accts)
             ELSE IF dec.err # None THEN Outcome(dec.err, RetNone, accts)
             ELSE load_rows(fieldnames, Tail(rows),
                            Put(accts, IF id.none THEN NoneText ELSE id.val,
                                BankAccount(IF id.none THEN NoneText ELSE id.val,
                                            IF name.none THEN NoneText ELSE name.val,
                                            dec.val)))

\* The file system at the snapshot path: no file, or a file with its text.
NoFile == [exists |-> FALSE, text |-> <<>>]

FileOf(text) == [exists |-> TRUE, text |-> text]

\* load_csv without its test of p.exists(): open() raises on a missing file.
load_csv_on_missing_file_raises(f) ==
    IF ~f.exists THEN Outcome("FileNotFoundError", RetNone, <<>>)
    ELSE LET r == csv_reader(UniversalNewlines(f.text))
         IN  IF r.err # None THEN Outcome(r.err, RetNone, <<>>)
             ELSE IF r.rows = <<>> THEN Outcome(None, RetNone, <<>>)
             ELSE load_rows(Head(r.rows), Tail(r.rows), <<>>)

\* load_csv: accounts is the dict of the system built (returned when err is
\* None).
load_csv_on(f) ==
    IF ~f.exists THEN Outcome(None, RetNone, <<>>)
    ELSE LET r == csv_reader(UniversalNewlines(f.text))
         IN  IF r.err # None THEN Outcome(r.err, RetNone, <<>>)
             ELSE IF r.rows = <<>> THEN Outcome(None, RetNone, <<>>)
             ELSE load_rows(Head(r.rows), Tail(r.rows), <<>>)

\* ------------------------------------------------------------------ state
\* accounts: self._accounts of the BankingSystem in use.
\* file:     the snapshot file at the path save_csv and load_csv use.
\* last:     the call the caller has just made and not yet looked at: its
\*           name, its arguments, the exception it raised (or None), the
\*           value it returned, and self._accounts as the call found it.
\* calls:    the calls of concurrent callers that are under way, each with
\*           the statement it has reached.
VARIABLES accounts, file, last, calls

vars == <<accounts, file, last, calls>>

\* No concurrent caller: each call runs to its end before the next starts.
NoCalls == <<>>

Call(op, args, err, ret, pre) ==
    [op |-> op, args |-> args, err |-> err, ret |-> ret, pre |-> pre]

\* No call is waiting to be looked at.
Idle == Call("idle", <<>>, None, RetNone, <<>>)

\* The balances of accts are within the model's: each, or its negative, is
\* one of Balances.
BalancesWithin(accts) ==
    \A i \in 1..Len(accts) :
        accts[i].val.balance \in Balances \/ Minus(accts[i].val.balance) \in Balances

\* A call on the ledger with outcome r.
Apply(op, args, r) ==
    /\ last = Idle
    /\ Len(r.accounts) <= MaxAccounts
    /\ BalancesWithin(r.accounts)
    /\ accounts' = r.accounts
    /\ last' = Call(op, args, r.err, r.ret, accounts)
    /\ UNCHANGED <<file, calls>>

create_account(name, opening_balance) ==
    \E acc_id \in uuid4(accounts) :
        Apply("create_account", <<name, opening_balance>>,
              create_account_on(accounts, acc_id, name, opening_balance))

deposit(acc_id, amount) ==
    Apply("deposit", <<acc_id, amount>>, deposit_on(accounts, acc_id, amount))

withdraw(acc_id, amount) ==
    Apply("withdraw", <<acc_id, amount>>, withdraw_on(accounts, acc_id, amount))

transfer(src_id, dst_id, amount) ==
    Apply("transfer", <<src_id, dst_id, amount>>,
          transfer_on(accounts, src_id, dst_id, amount))

get_balance(acc_id) ==
    Apply("get_balance", <<acc_id>>, get_balance_on(accounts, acc_id))

\* bank.save_csv(path): the file is rewritten whole.
save_csv ==
    /\ last = Idle
    /\ file' = FileOf(save_csv_text(accounts))
    /\ last' = Call("save_csv", <<>>, None, RetNone, accounts)
    /\ UNCHANGED <<accounts, calls>>

\* bank = BankingSystem.load_csv(path): the system returned replaces the one
\* in use; when load_csv raises, nothing is returned.
load_csv ==
    LET r == load_csv_on(file) IN
    /\ last = Idle
    /\ accounts' = IF r.err = None THEN r.accounts ELSE accounts
    /\ last' = Call("load_csv", <<>>, r.err, RetNone, accounts)
    /\ UNCHANGED <<file, calls>>

\* The caller has looked at the outcome of its call and goes on to the next.
next_call ==
    /\ last # Idle
    /\ last' = Idle
    /\ UNCHANGED <<accounts, file, calls>>

\* ------------------------------------------------------------------ the ledger
\* BankingSystem(): an empty ledger, no snapshot file.
Init ==
    /\ accounts = <<>>
    /\ file = NoFile
    /\ last = Idle
    /\ calls = NoCalls

Next ==
    \/ \E name \in Names, opening_balance \in RawAmounts :
           create_account(name, opening_balance)
    \/ \E acc_id \in IdPool, amount \in RawAmounts : deposit(acc_id, amount)
    \/ \E acc_id \in IdPool, amount \in RawAmounts : withdraw(acc_id, amount)
    \/ \E src_id \in IdPool, dst_id \in IdPool, amount \in RawAmounts :
           transfer(src_id, dst_id, amount)
    \/ \E acc_id \in IdPool : get_balance(acc_id)
    \/ next_call

Spec == Init /\ [][Next]_vars

\* ------------------------------------------------------------------ deposit, then withdraw
\* bank.deposit(acc_id, amount); bank.withdraw(acc_id, amount): the caller
\* takes out what it has just put in.  An exception of the deposit ends the
\* sequence before the withdraw.
deposit_then_withdraw(acc_id, amount) ==
    /\ last = Idle
    /\ BalancesWithin(deposit_on(accounts, acc_id, amount).accounts)
    /\ Apply("deposit;withdraw", <<acc_id, amount>>,
             Done(withdraw_step(
                      deposit_step(NoSteps(accounts), acc_id, to_decimal(amount)),
                      acc_id, to_decimal(amount))))

NextDepositWithdraw ==
    \/ Next
    \/ \E acc_id \in IdPool, amount \in RawAmounts :
           deposit_then_withdraw(acc_id, amount)

SpecDepositWithdraw == Init /\ [][NextDepositWithdraw]_vars

\* ------------------------------------------------------------------ the snapshot
\* The ledgers of at most MaxAccounts accounts that create_account and
\* deposit build: distinct keys, each account filed under its own id, a
\* balance from 0.00 to MaxBalance cents.
Entries == { [key |-> k, val |-> BankAccount(k, n, Cents(b))] :
                 k \in IdPool, n \in SnapshotNames, b \in 0..MaxBalance }

Ledgers == UNION { { d \in [1..n -> Entries] :
                         \A i, j \in 1..n : i # j => d[i].key # d[j].key } :
                   n \in 0..MaxAccounts }

InitSnapshot ==
    /\ accounts \in Ledgers
    /\ file = NoFile
    /\ last = Idle
    /\ calls = NoCalls

NextSnapshot == save_csv \/ load_csv \/ next_call

SpecSnapshot == InitSnapshot /\ [][NextSnapshot]_vars

\* ------------------------------------------------------------------ one call on any ledger
\* The ledgers create_account, deposit, withdraw and transfer build from
\* the names and amounts callers pass.
CreatedEntries == { [key |-> k, val |-> BankAccount(k, n, b)] :
                        k \in IdPool, n \in Names, b \in Balances }

CreatedLedgers == UNION { { d \in [1..n -> CreatedEntries] :
                                \A i, j \in 1..n : i # j => d[i].key # d[j].key } :
                          n \in 0..MaxAccounts }

InitAnyLedger ==
    /\ accounts \in CreatedLedgers
    /\ file = NoFile
    /\ last = Idle
    /\ calls = NoCalls

\* One call of the ledger or a save, on the ledger as it stands.
NextAnyCall ==
    \/ \E name \in Names, opening_balance \in RawAmounts :
           create_account(name, opening_balance)
    \/ \E acc_id \in IdPool, amount \in RawAmounts : deposit(acc_id, amount)
    \/ \E acc_id \in IdPool, amount \in RawAmounts : withdraw(acc_id, amount)
    \/ \E src_id \in IdPool, dst_id \in IdPool, amount \in RawAmounts :
           transfer(src_id, dst_id, amount)
    \/ save_csv

SpecAnyCall == InitAnyLedger /\ [][NextAnyCall]_vars

\* ------------------------------------------------------------------ loading a snapshot
\* csv.writer.writerows(rows)
RECURSIVE csv_writerows(_)
csv_writerows(rows) ==
    IF rows = <<>> THEN <<>>
    ELSE csv_writerow(Head(rows)) \o csv_writerows(Tail(rows))

\* Balance columns Decimal() refuses: a letter, and the empty text.
UnparsableBalances == { <<"x">>, <<>> }

\* The records of the snapshot files that are loaded: id, name, balance as
\* save_csv writes them, the same with a negative balance, with a balance
\* that is no number, and with the last one or two fields missing.
WellFormedRecords == { <<id, <<"A">>, Decimal_str(Cents(1))>> : id \in IdPool }

\* The id of the records that are not well formed.
OddId == <<"u", "3">>

NegativeRecords == { <<OddId, <<"A">>, Decimal_str(Minus(Cents(1)))>> }

UnparsableRecords == { <<OddId, <<"A">>, b>> : b \in UnparsableBalances }

ShortRecords == { <<OddId, <<"A">>>>, <<OddId>> }

SnapshotRecords ==
    WellFormedRecords \cup NegativeRecords \cup UnparsableRecords \cup ShortRecords

\* A record with a field missing or a balance that cannot be parsed.
Malformed(rec) == Len(rec) < Len(HeaderRow) \/ rec[3] \in UnparsableBalances

\* The records of a file: at most MaxAccounts of them, in any order.
RecordSeqs == UNION { [1..n -> SnapshotRecords] : n \in 0..MaxAccounts }

\* The file with the header and these records.
SnapshotFile(recs) == FileOf(csv_writerow(HeaderRow) \o csv_writerows(recs))

LoadFiles == {NoFile} \cup { SnapshotFile(recs) : recs \in RecordSeqs }

MalformedFiles ==
    { SnapshotFile(recs) :
          recs \in { r \in RecordSeqs : \E i \in 1..Len(r) : Malformed(r[i]) } }

\* What a process does first: bank = BankingSystem.load_csv(path); acc =
\* bank.create_account(name, opening_balance); bank.get_balance(acc).  An
\* exception ends the sequence where it is raised.
load_create_get ==
    LET l == load_csv_on(file) IN
    /\ last = Idle
    /\ accounts = <<>>
    /\ \E name \in Names, opening_balance \in RawAmounts :
        IF l.err # None
        THEN Apply("load;create;get", <<name, opening_balance>>,
                   Outcome(l.err, RetNone, accounts))
        ELSE \E acc_id \in uuid4(l.accounts) :
                LET c == create_account_on(l.accounts, acc_id, name,
                                           opening_balance)
                    g == get_balance_on(c.accounts, acc_id)
                IN  Apply("load;create;get", <<name, opening_balance>>,
                          IF c.err # None THEN c ELSE g)

\* A process that starts with no ledger and a snapshot path.
InitLoad ==
    /\ accounts = <<>>
    /\ file \in LoadFiles
    /\ last = Idle
    /\ calls = NoCalls

NextLoad ==
    \/ load_csv
    \/ load_create_get
    \/ next_call

SpecLoad == InitLoad /\ [][NextLoad]_vars

\* ------------------------------------------------------------------ concurrent callers
\* Callers whose calls on one BankingSystem run at the same time.
Callers == {"c1", "c2"}

\* The amounts they pass: those that convert to a positive number of cents
\* up to MaxBalance.
PositiveAmounts ==
    { a \in RawAmounts : \E n \in 1..MaxBalance : to_decimal(a) = Cents(n) }

\* The BankAccount methods a call runs, each with the key it looks up.
Leg(method, id) == [method |-> method, id |-> id]

CallLegs(op, ids) ==
    CASE op = "deposit"  -> << Leg("deposit", ids[1]) >>
      [] op = "withdraw" -> << Leg("withdraw", ids[1]) >>
      [] op = "transfer" -> << Leg("withdraw", ids[1]), Leg("deposit", ids[2]) >>

\* A call about to start: amt is to_decimal(amount), pc the statement it
\* is at, tmp the balance it has read for its += or -=.
StartCall(op, ids, amount) ==
    [op |-> op, ids |-> ids, amount |-> amount,
     legs |-> CallLegs(op, ids), amt |-> to_decimal(amount),
     pc |-> "lookup", tmp |-> Cents(0), err |-> None]

ConcurrentCalls ==
    { StartCall(op, <<id>>, a) :
          op \in {"deposit", "withdraw"}, id \in IdPool, a \in PositiveAmounts }
    \cup { StartCall("transfer", <<src_id, dst_id>>, a) :
               src_id \in IdPool, dst_id \in IdPool, a \in PositiveAmounts }

\* The ledger the callers share: two accounts, with any balances.
ConcurrentLedgers ==
    { << [key |-> <<"u", "1">>, val |-> BankAccount(<<"u", "1">>, <<"A">>, b1)],
         [key |-> <<"u", "2">>, val |-> BankAccount(<<"u", "2">>, <<"A">>, b2)] >> :
          b1 \in { Cents(n) : n \in 0..MaxBalance },
          b2 \in { Cents(n) : n \in 0..MaxBalance } }

\* The call of caller c ends: with exception err, or normally (None).
EndCall(c, err) == [calls EXCEPT ![c].pc = "done", ![c].err = err]

\* self._accounts[id]
caller_lookup(c) ==
    /\ calls[c].pc = "lookup"
    /\ calls' = IF Has(accounts, Head(calls[c].legs).id)
                THEN [calls EXCEPT ![c].pc = "check_amount"]
                ELSE EndCall(c, AccountNotFound)
    /\ UNCHANGED <<accounts, file, last>>

\* if amount <= 0: raise ValueError("amount must be positive")
caller_check_amount(c) ==
    LET nonpos == Decimal_le(calls[c].amt, Zero) IN
    /\ calls[c].pc = "check_amount"
    /\ calls' = IF nonpos.err # None THEN EndCall(c, nonpos.err)
                ELSE IF nonpos.val THEN EndCall(c, InvalidAmount)
                ELSE IF Head(calls[c].legs).method = "withdraw"
                THEN [calls EXCEPT ![c].pc = "check_funds"]
                ELSE [calls EXCEPT ![c].pc = "read"]
    /\ UNCHANGED <<accounts, file, last>>

\* if amount > self.balance: raise ValueError("insufficient funds")
caller_check_funds(c) ==
    LET over == Decimal_gt(calls[c].amt,
                           Get(accounts, Head(calls[c].legs).id).balance) IN
    /\ calls[c].pc = "check_funds"
    /\ calls' = IF over.err # None THEN EndCall(c, over.err)
                ELSE IF over.val THEN EndCall(c, InsufficientFunds)
                ELSE [calls EXCEPT ![c].pc = "read"]
    /\ UNCHANGED <<accounts, file, last>>

\* self.balance += amount, first half: the balance is read.
caller_read(c) ==
    /\ calls[c].pc = "read"
    /\ calls' = [calls EXCEPT ![c].pc = "write",
                              ![c].tmp = Get(accounts, Head(calls[c].legs).id).balance]
    /\ UNCHANGED <<accounts, file, last>>

\* self.balance += amount, second half: the sum is computed and stored;
\* the method returns and the call goes on to its next statement, if any.
\* An exception of the arithmetic ends the call with nothing stored.
caller_write(c) ==
    LET leg == Head(calls[c].legs)
        new == IF leg.method = "deposit"
               THEN Decimal_add(calls[c].tmp, calls[c].amt)
               ELSE Decimal_sub(calls[c].tmp, calls[c].amt)
        acc == Get(accounts, leg.id)
    IN  /\ calls[c].pc = "write"
        /\ accounts' = IF new.err # None THEN accounts
                       ELSE Put(accounts, leg.id, [acc EXCEPT !.balance = new.val])
        /\ calls' = IF new.err # None THEN EndCall(c, new.err)
                    ELSE [calls EXCEPT ![c].legs = Tail(@),
                                       ![c].pc = IF Tail(calls[c].legs) = <<>>
                                                 THEN "done" ELSE "lookup"]
        /\ UNCHANGED <<file, last>>

\* Each caller has one call to make; last keeps the ledger they start on.
InitConcurrent ==
    /\ accounts \in ConcurrentLedgers
    /\ file = NoFile
    /\ last = Call("concurrent", <<>>, None, RetNone, accounts)
    /\ calls \in [Callers -> ConcurrentCalls]

NextConcurrent ==
    \E c \in Callers :
        \/ caller_lookup(c)
        \/ caller_check_amount(c)
        \/ caller_check_funds(c)
        \/ caller_read(c)
        \/ caller_write(c)

SpecConcurrent == InitConcurrent /\ [][NextConcurrent]_vars

\* ================================================================== claims
Balance(accts, id) == Get(accts, id).balance

SetBalance(accts, id, b) == Put(accts, id, [Get(accts, id) EXCEPT !.balance = b])

\* x - y in exact arithmetic; NaN where there is no difference.
Difference(x, y) == Sum(x, Minus(y))

\* amt has left src_id and reached dst_id, and nothing else differs.
Moved(pre, post, src_id, dst_id, amt) ==
    /\ Has(pre, src_id) /\ Has(pre, dst_id)
    /\ LET afterW == SetBalance(pre, src_id, Difference(Balance(pre, src_id), amt))
       IN  post = SetBalance(afterW, dst_id, Sum(Balance(afterW, dst_id), amt))

\* Two ledgers with the same ids and, for each id, the same account.
SameLedger(a, b) ==
    /\ Keys(a) = Keys(b)
    /\ \A k \in Keys(a) : Get(a, k) = Get(b, k)

\* post has the accounts of pre, each with its id and name, and their
\* balances but for that of id, which is the number b.
OnlyBalance(pre, post, id, b) ==
    /\ Has(pre, id)
    /\ Keys(post) = Keys(pre)
    /\ Len(post) = Len(pre)
    /\ \A k \in Keys(pre) :
          /\ Get(post, k).id = Get(pre, k).id
          /\ Get(post, k).name = Get(pre, k).name
          /\ IF k = id THEN Equal(Balance(post, k), b)
             ELSE Balance(post, k) = Balance(pre, k)

\* C1: every transfer, successful or failing, either moves the amount from
\* the source to the destination or changes no balance at all; a transfer
\* that fails on an absent id changes nothing.
C1_TransferAllOrNothing ==
    last.op = "transfer" =>
        /\ \/ accounts = last.pre
           \/ Moved(last.pre, accounts, last.args[1], last.args[2],
                    to_decimal(last.args[3]))
        /\ last.err = AccountNotFound => accounts = last.pre

\* C2: in every state reachable from the empty ledger every balance is >= 0.
C2_BalanceNonNegative ==
    \A i \in 1..Len(accounts) : LessEq(Zero, accounts[i].val.balance)

\* C3: a transfer naming an absent source or destination fails with
\* AccountNotFound, whatever the amount and the source balance.
C3_TransferNotFoundFirst ==
    ( /\ last.op = "transfer"
      /\ ~Has(last.pre, last.args[1]) \/ ~Has(last.pre, last.args[2]) )
    => last.err = AccountNotFound

\* C4: loading the snapshot written by saving a ledger yields the same ids
\* and for each id the same name and balance; saving leaves the ledger as
\* it is.
C4_RoundTrip ==
    /\ last.op = "save_csv" => accounts = last.pre
    /\ (last.op = "load_csv" /\ file = FileOf(save_csv_text(last.pre)))
       => (last.err = None /\ SameLedger(accounts, last.pre))

\* C5: a withdraw of a positive amount above the balance fails with
\* InsufficientFunds and changes nothing; one of a positive amount up to the
\* whole balance succeeds and takes exactly that amount.
C5_WithdrawFunds ==
    ( /\ last.op = "withdraw"
      /\ Has(last.pre, last.args[1])
      /\ Less(Zero, to_decimal(last.args[2])) )
    => LET amt == to_decimal(last.args[2])
           bal == Balance(last.pre, last.args[1])
       IN  /\ Less(bal, amt)
              => (last.err = InsufficientFunds /\ accounts = last.pre)
           /\ LessEq(amt, bal)
              => /\ last.err = None
                 /\ OnlyBalance(last.pre, accounts, last.args[1],
                                Difference(bal, amt))

\* C6: a deposit or withdraw whose converted amount is <= 0 fails with
\* InvalidAmount and leaves the balances as they were.
C6_NonPositiveRejected ==
    ( /\ last.op \in {"deposit", "withdraw"}
      /\ Has(last.pre, last.args[1])
      /\ LessEq(to_decimal(last.args[2]), Zero) )
    => (last.err = InvalidAmount /\ accounts = last.pre)

\* A deposit of a positive amount that converts to 0.00 was refused.
C6_Witness ==
    /\ last.op = "deposit"
    /\ Has(last.pre, last.args[1])
    /\ Less(Zero, last.args[2])
    /\ IsZero(to_decimal(last.args[2]))
    /\ last.err = InvalidAmount

\* C7: create_account with a negative opening balance fails with
\* InvalidAmount and leaves the ledger as it was.
C7_NegativeOpeningRejected ==
    (last.op = "create_account" /\ Less(last.args[2], Zero))
    => (last.err = InvalidAmount /\ accounts = last.pre)

\* A create_account with an opening balance that converts to a negative
\* amount was refused on a ledger that holds an account.
C7_Witness ==
    /\ last.op = "create_account"
    /\ Less(to_decimal(last.args[2]), Zero)
    /\ last.err = InvalidAmount
    /\ Len(accounts) >= 1

\* C8: a successful create_account returns an id that was no key before,
\* adds exactly one account, with the given name and the converted opening
\* balance, and leaves the accounts there were as they are.
C8_CreateFresh ==
    (last.op = "create_account" /\ last.err = None)
    => \E acc_id \in IdPool :
          /\ last.ret = RetId(acc_id)
          /\ ~Has(last.pre, acc_id)
          /\ Len(accounts) = Len(last.pre) + 1
          /\ accounts = Append(last.pre,
                 [key |-> acc_id,
                  val |-> BankAccount(acc_id, last.args[1],
                                      to_decimal(last.args[2]))])

\* A second account was created, under a name the first one has too.
C8_Witness ==
    /\ last.op = "create_account"
    /\ last.err = None
    /\ Len(last.pre) = 1
    /\ last.pre[1].val.name = last.args[1]
    /\ Len(accounts) = 2

\* C9: create_account succeeds exactly when the converted opening balance
\* is >= 0 and fails with InvalidAmount exactly when it is < 0.
C9_OpeningDecidedAfterConversion ==
    last.op = "create_account"
    => /\ last.err = None <=> LessEq(Zero, to_decimal(last.args[2]))
       /\ last.err = InvalidAmount <=> Less(to_decimal(last.args[2]), Zero)

\* C10: deposit, withdraw and get_balance on an absent id fail with
\* AccountNotFound and change nothing; get_balance on a present id returns
\* its balance and changes nothing.
C10_AbsentId ==
    /\ ( /\ last.op \in {"deposit", "withdraw", "get_balance"}
         /\ ~Has(last.pre, last.args[1]) )
       => (last.err = AccountNotFound /\ accounts = last.pre)
    /\ ( /\ last.op = "get_balance"
         /\ Has(last.pre, last.args[1]) )
       => /\ last.err = None
          /\ last.ret = RetBalance(Balance(last.pre, last.args[1]))
          /\ accounts = last.pre

\* A deposit named an id the ledger, which holds an account, does not have.
C10_Witness ==
    /\ last.op = "deposit"
    /\ ~Has(last.pre, last.args[1])
    /\ Len(last.pre) >= 1
    /\ last.err = AccountNotFound

\* C11: a successful deposit or withdraw changes the balance of the account
\* named by exactly the converted amount (up for deposit, down for
\* withdraw) and nothing else: the ids, every account's id and name, and
\* every other balance are as before.
C11_OnlyTheNamedBalance ==
    (last.op \in {"deposit", "withdraw"} /\ last.err = None)
    => OnlyBalance(last.pre, accounts, last.args[1],
                   IF last.op = "deposit"
                   THEN Sum(Balance(last.pre, last.args[1]),
                            to_decimal(last.args[2]))
                   ELSE Difference(Balance(last.pre, last.args[1]),
                                   to_decimal(last.args[2])))

\* C12: on an account with any balance >= 0, a deposit of a positive
\* (converted) amount followed by a withdraw of the same amount both succeed
\* and leave the balance, and the whole ledger, exactly as it started.
C12_DepositThenWithdrawRestores ==
    ( /\ last.op = "deposit;withdraw"
      /\ Has(last.pre, last.args[1])
      /\ LessEq(Zero, Balance(last.pre, last.args[1]))
      /\ Less(Zero, to_decimal(last.args[2])) )
    => /\ last.err = None
       /\ OnlyBalance(last.pre, accounts, last.args[1],
                      Balance(last.pre, last.args[1]))

\* C13: a transfer from an existing account to itself succeeds and leaves
\* its balance unchanged when the converted amount is positive and at most
\* the balance before the call; it fails with InsufficientFunds, balance
\* unchanged, when the amount is greater than that balance.
C13_SelfTransfer ==
    ( /\ last.op = "transfer"
      /\ last.args[1] = last.args[2]
      /\ Has(last.pre, last.args[1]) )
    => LET amt == to_decimal(last.args[3])
           bal == Balance(last.pre, last.args[1])
       IN  /\ (Less(Zero, amt) /\ LessEq(amt, bal))
              => /\ last.err = None
                 /\ OnlyBalance(last.pre, accounts, last.args[1], bal)
           /\ Less(bal, amt)
              => (last.err = InsufficientFunds /\ accounts = last.pre)

\* C14: loading an existing snapshot that holds a record with a field
\* missing or with a balance that cannot be parsed fails as a whole,
\* wherever the record stands: no ledger is returned.
C14_MalformedRecordFailsLoad ==
    (last.op = "load_csv" /\ file \in MalformedFiles)
    => (last.err # None /\ accounts = last.pre)

\* A load failed on a file whose first record is well formed and whose
\* second is not.
C14_Witness ==
    /\ last.op = "load_csv"
    /\ last.err # None
    /\ \E good \in WellFormedRecords, bad \in SnapshotRecords :
          /\ Malformed(bad)
          /\ file = SnapshotFile(<<good, bad>>)

\* C15: loading from a path where no file exists is no error and gives a
\* ledger with no accounts; on that ledger create_account (with an opening
\* balance >= 0) succeeds and get_balance of the id it returned gives the
\* converted opening balance.
C15_LoadNothingThenUse ==
    /\ (last.op = "load_csv" /\ ~file.exists)
       => (last.err = None /\ accounts = <<>>)
    /\ ( /\ last.op = "load;create;get"
         /\ ~file.exists
         /\ LessEq(Zero, last.args[2]) )
       => /\ last.err = None
          /\ last.ret = RetBalance(to_decimal(last.args[2]))
          /\ \E acc_id \in IdPool :
                accounts = << [key |-> acc_id,
                               val |-> BankAccount(acc_id, last.args[1],
                                                   to_decimal(last.args[2]))] >>

\* With no file at the path, the load, the create_account with 0.02 and the
\* get_balance were made, and the ledger holds one account.
C15_Witness ==
    /\ last.op = "load;create;get"
    /\ ~file.exists
    /\ last.args[2] = Finite(0, <<2>>, -2)
    /\ last.ret = RetBalance(Cents(2))
    /\ Len(accounts) = 1

\* The sum of all balances of a ledger.
RECURSIVE SumBalances(_)
SumBalances(accts) ==
    IF accts = <<>> THEN Zero
    ELSE Sum(Head(accts).val.balance, SumBalances(Tail(accts)))

\* C16: the sum of all balances is the sum of the converted opening
\* balances plus the successful deposits minus the successful withdraws:
\* each successful create_account, deposit and withdraw moves the sum by its
\* converted amount, a failing call leaves it, and no transfer, successful
\* or failing, changes it.
C16_SumOfBalances ==
    LET before == SumBalances(last.pre)
        after  == SumBalances(accounts)
    IN  /\ (last.op = "create_account" /\ last.err = None)
           => Equal(after, Sum(before, to_decimal(last.args[2])))
        /\ (last.op = "deposit" /\ last.err = None)
           => Equal(after, Sum(before, to_decimal(last.args[2])))
        /\ (last.op = "withdraw" /\ last.err = None)
           => Equal(after, Difference(before, to_decimal(last.args[2])))
        /\ (last.op \in {"create_account", "deposit", "withdraw"} /\ last.err # None)
           => Equal(after, before)
        /\ last.op = "transfer" => Equal(after, before)

\* C17: no create_account, deposit, withdraw, transfer or save removes,
\* renames or re-keys an account: every id of the ledger before the call is
\* an id after it, with the same id field and name, and every account is
\* filed under its own id.
C17_AccountsStay ==
    last.op \in {"create_account", "deposit", "withdraw", "transfer", "save_csv"}
    => /\ \A k \in Keys(last.pre) :
             /\ Has(accounts, k)
             /\ Get(accounts, k).id = Get(last.pre, k).id
             /\ Get(accounts, k).name = Get(last.pre, k).name
       /\ \A i \in 1..Len(accounts) : accounts[i].val.id = accounts[i].key
       /\ Cardinality(Keys(accounts)) = Len(accounts)

\* A withdraw emptied one of two accounts, and both are still there.
C17_Witness ==
    /\ last.op = "withdraw"
    /\ last.err = None
    /\ Len(last.pre) = 2
    /\ IsZero(Balance(accounts, last.args[1]))
    /\ Len(accounts) = 2

\* C18: a transfer between two distinct existing accounts whose converted
\* amount is zero or negative fails with InvalidAmount; and whenever the
\* withdraw leg of such a transfer is rejected, for that or for lack of
\* funds, the deposit leg is not run and both balances are as before.
C18_RejectedWithdrawLeg ==
    ( /\ last.op = "transfer"
      /\ last.args[1] # last.args[2]
      /\ Has(last.pre, last.args[1])
      /\ Has(last.pre, last.args[2]) )
    => LET t   == transfer_steps(last.pre, last.args[1], last.args[2], last.args[3])
           w   == BankAccount_withdraw(Get(last.pre, last.args[1]),
                                       to_decimal(last.args[3]))
       IN  /\ LessEq(to_decimal(last.args[3]), Zero) => last.err = InvalidAmount
           /\ w.err # None
              => /\ last.err = w.err
                 /\ t.legs = <<"withdraw">>
                 /\ accounts = last.pre

\* A transfer of a negative amount between two accounts that both hold
\* money was refused.
C18_Witness ==
    /\ last.op = "transfer"
    /\ last.args[1] # last.args[2]
    /\ Has(last.pre, last.args[1])
    /\ Has(last.pre, last.args[2])
    /\ Less(Zero, Balance(last.pre, last.args[1]))
    /\ Less(Zero, Balance(last.pre, last.args[2]))
    /\ Less(to_decimal(last.args[3]), Zero)
    /\ last.err = InvalidAmount

\* C19: every ledger load returns has only balances >= 0: a load either
\* fails or returns such a ledger, and a record with a negative balance is
\* never accepted.
C19_LoadedBalancesNonNegative ==
    (last.op = "load_csv" /\ last.err = None)
    => \A i \in 1..Len(accounts) : LessEq(Zero, accounts[i].val.balance)

\* The ledger after the call c has run alone, from its start to its end.
RunCall(accts, c) ==
    CASE c.op = "deposit"  -> deposit_on(accts, c.ids[1], c.amount).accounts
      [] c.op = "withdraw" -> withdraw_on(accts, c.ids[1], c.amount).accounts
      [] c.op = "transfer" -> transfer_on(accts, c.ids[1], c.ids[2], c.amount).accounts

\* The ledger after the callers' calls have run one after another, in the
\* order given.
RECURSIVE RunInOrder(_, _)
RunInOrder(accts, order) ==
    IF order = <<>> THEN accts
    ELSE RunInOrder(RunCall(accts, calls[Head(order)]), Tail(order))

Orders ==
    { o \in [1..Cardinality(Callers) -> Callers] :
          \A i, j \in 1..Cardinality(Callers) : i # j => o[i] # o[j] }

\* C20: when the calls of concurrent callers interleave statement by
\* statement (lookup, check, read, write), no balance is ever negative and,
\* once all calls have ended, the balances are those some order of the same
\* calls run one after another gives.
C20_InterleavingsAreSequential ==
    /\ \A i \in 1..Len(accounts) : LessEq(Zero, accounts[i].val.balance)
    /\ (\A c \in Callers : calls[c].pc = "done")
       => \E o \in Orders : accounts = RunInOrder(last.pre, o)

====
